---- MODULE Spec2Model ----
(***************************************************************************)
(* RetopoFlow editing session (rfmode/rfcontext.py, class RFContext):      *)
(* the undo/redo history over the target mesh and the modal event loop.    *)
(*                                                                         *)
(* Objects.  rftarget, and the 'rftarget' field of every history entry,    *)
(* are references into `heap`, the store of RFTarget objects; heap[i] is   *)
(* the value (topology and selection) of object i.  copy.deepcopy makes a  *)
(* new object with the same value; a caller's edit changes the value of    *)
(* the object rftarget refers to, whoever else holds that reference.       *)
(*                                                                         *)
(* Tools.  RFTool instances are named by the elements of Tools; a history  *)
(* entry holds a reference to the instance, never a copy.                  *)
(*                                                                         *)
(* Collaborators (the tool, the pointer widget, the render cache, the      *)
(* window manager, the alert surface) are outside the session: `calls` is  *)
(* the log of the calls the session made on them during the last call or   *)
(* event, in order.                                                        *)
(***************************************************************************)
EXTENDS Integers, Sequences, FiniteSets, TLC

\* ------------------------------------------------------------- bounds

\* RFContext.undo_depth is 100 in the source (rfcontext.py:134); the model
\* runs the same code with a small depth so that eviction happens.
undo_depth == 2

\* The values a mesh can take.
Vals == {0, 1}

\* The RFTool instances the session can activate.
Tools == {"T1", "T2"}

\* Action labels callers push.
Labels == {"a", "b"}

VARIABLES undo, redo, rftarget, rftarget_draw, heap, tool, calls,
          mode, nav, exit, time_to_save,
          ev, ret, nevents,
          call, run, rt,
          query

\* ------------------------------------------------- the session record

\* The fields of RFContext, and the log of the calls on its collaborators.
Cur ==
  [undo |-> undo, redo |-> redo, rftarget |-> rftarget,
   rftarget_draw |-> rftarget_draw, heap |-> heap, tool |-> tool,
   mode |-> mode, nav |-> nav, exit |-> exit, time_to_save |-> time_to_save,
   calls |-> calls]

RefSeq(s) ==
  <<s.rftarget, s.rftarget_draw>>
    \o [i \in 1..Len(s.undo) |-> s.undo[i].rftarget]
    \o [i \in 1..Len(s.redo) |-> s.redo[i].rftarget]

RECURSIVE Distinct(_, _)
\* The objects of r in the order of their first reference.
Distinct(r, acc) ==
  IF r = <<>> THEN acc
  ELSE Distinct(Tail(r),
                IF \E k \in 1..Len(acc) : acc[k] = Head(r) THEN acc
                ELSE Append(acc, Head(r)))

Rank(order, id) == CHOOSE k \in 1..Len(order) : order[k] = id

Renamed(q, order) ==
  [i \in 1..Len(q) |-> [q[i] EXCEPT !.rftarget = Rank(order, q[i].rftarget)]]

Renumber(s, order) ==
  [s EXCEPT !.rftarget = Rank(order, s.rftarget),
            !.rftarget_draw = Rank(order, s.rftarget_draw),
            !.undo = Renamed(s.undo, order),
            !.redo = Renamed(s.redo, order),
            !.heap = [k \in 1..Len(order) |-> s.heap[order[k]]]]

\* Reference counting frees an object no field or entry refers to.  Objects
\* are compared only for identity, so the store is kept up to renaming:
\* the objects are numbered in the order the session refers to them (live
\* mesh, render cache, undo from the oldest entry, redo from the oldest).
Collect(x) ==
  CHOOSE c \in {Renumber(s, Distinct(RefSeq(s), <<>>)) : s \in {x}} : TRUE

\* The first number that names no object of the store.
NewId(s) ==
  CHOOSE i \in 1..(Cardinality(DOMAIN s.heap) + 1) :
    /\ i \notin DOMAIN s.heap
    /\ \A j \in 1..(i - 1) : j \in DOMAIN s.heap

Called(s, fs) == [s EXCEPT !.calls = s.calls \o fs]

Live(s) == s.heap[s.rftarget]

Top(q) == q[Len(q)]

Pop(q) == SubSeq(q, 1, Len(q) - 1)

\* ------------------------------------------------ undo / redo stacks

\* A snapshot that keeps the live object itself instead of a copy of it.
DeepCopyShared(s) == [s |-> s, id |-> s.rftarget]

\* copy.deepcopy(self.rftarget): a new object holding the same value.
DeepCopy(s) ==
  LET i == NewId(s)
  IN [s |-> [s EXCEPT !.heap = [j \in DOMAIN s.heap \cup {i} |->
                                  IF j = i THEN Live(s) ELSE s.heap[j]]],
      id |-> i]

\* _create_state: the entry, and the session with the copy in its store.
create_state(s, action) ==
  LET c == DeepCopy(s)
  IN [s |-> c.s,
      state |-> [action |-> action, tool |-> s.tool, rftarget |-> c.id]]

\* set_tool.  self.tool == tool compares the instances.
set_tool(s, t, forceUpdate) ==
  IF ~forceUpdate /\ s.tool = t THEN s
  ELSE Called([s EXCEPT !.tool = t],
              <<"tool.start", "tool.update_tool_options", "tool.update",
                "tool_selection_min.set_option", "tool_selection_max.set_option">>)

\* A restore that activates the tool only if it is not the active one.
restore_state_unforced(s, state) ==
  LET s1 == Called([s EXCEPT !.rftarget = state.rftarget],
                   <<"rftarget.rewrap", "rftarget.dirty">>)
      s2 == Called([s1 EXCEPT !.rftarget_draw = s1.rftarget],
                   <<"rftarget_draw.replace_rfmesh">>)
  IN set_tool(s2, state.tool, FALSE)

restore_state(s, state) ==
  LET s1 == Called([s EXCEPT !.rftarget = state.rftarget],
                   <<"rftarget.rewrap", "rftarget.dirty">>)
      s2 == Called([s1 EXCEPT !.rftarget_draw = s1.rftarget],
                   <<"rftarget_draw.replace_rfmesh">>)
  IN set_tool(s2, state.tool, TRUE)

\* instrument_write appends a line to a text block of the host.
instrument_write(s, action) == Called(s, <<"instrument_write">>)

\* A limit that drops the newest entries instead of the oldest.
LimitNewest(q) == IF Len(q) > undo_depth THEN SubSeq(q, 1, undo_depth) ELSE q

RECURSIVE Limit(_)
\* while len(self.undo) > self.undo_depth: self.undo.popleft()
Limit(q) == IF Len(q) > undo_depth THEN Limit(Tail(q)) ELSE q

\* undo_push without the limit on the stack size.
undo_push_unlimited(s, action, repeatable) ==
  IF repeatable /\ s.undo # <<>> /\ Top(s.undo).action = action THEN s
  ELSE LET c == create_state(s, action)
           s1 == [c.s EXCEPT !.undo = Append(c.s.undo, c.state)]
           s3 == [s1 EXCEPT !.redo = <<>>]
       IN instrument_write(s3, action)

\* undo_push that pushes again where it should collapse.
undo_push_always(s, action, repeatable) ==
  LET c == create_state(s, action)
      s1 == [c.s EXCEPT !.undo = Append(c.s.undo, c.state)]
      s2 == [s1 EXCEPT !.undo = Limit(s1.undo)]
      s3 == [s2 EXCEPT !.redo = <<>>]
  IN instrument_write(s3, action)

\* undo_push that keeps the redo stack.
undo_push_keepredo(s, action, repeatable) ==
  IF repeatable /\ s.undo # <<>> /\ Top(s.undo).action = action THEN s
  ELSE LET c == create_state(s, action)
           s1 == [c.s EXCEPT !.undo = Append(c.s.undo, c.state)]
           s2 == [s1 EXCEPT !.undo = Limit(s1.undo)]
       IN instrument_write(s2, action)

undo_push(s, action, repeatable) ==
  IF repeatable /\ s.undo # <<>> /\ Top(s.undo).action = action THEN s
  ELSE LET c == create_state(s, action)
           s1 == [c.s EXCEPT !.undo = Append(c.s.undo, c.state)]
           s2 == [s1 EXCEPT !.undo = Limit(s1.undo)]
           s3 == [s2 EXCEPT !.redo = <<>>]
       IN instrument_write(s3, action)

\* undo_pop without the check for an empty stack: the entry is appended to
\* redo before the pop of the empty stack fails.
undo_pop_unchecked(s) ==
  LET c == create_state(s, "undo")
      s1 == [c.s EXCEPT !.redo = Append(c.s.redo, c.state)]
  IN IF s.undo = <<>> THEN s1
     ELSE instrument_write(restore_state([s1 EXCEPT !.undo = Pop(s1.undo)], Top(s1.undo)),
                           "undo")

\* undo_pop that takes the oldest entry (popleft) instead of the newest.
undo_pop_oldest(s) ==
  IF s.undo = <<>> THEN s
  ELSE LET c == create_state(s, "undo")
           s1 == [c.s EXCEPT !.redo = Append(c.s.redo, c.state)]
           s2 == restore_state([s1 EXCEPT !.undo = Tail(s1.undo)], Head(s1.undo))
       IN instrument_write(s2, "undo")

undo_pop(s) ==
  IF s.undo = <<>> THEN s
  ELSE LET c == create_state(s, "undo")
           s1 == [c.s EXCEPT !.redo = Append(c.s.redo, c.state)]
           s2 == restore_state([s1 EXCEPT !.undo = Pop(s1.undo)], Top(s1.undo))
       IN instrument_write(s2, "undo")

\* undo_cancel that keeps the state it leaves on redo, as undo_pop does.
undo_cancel_toredo(s) ==
  IF s.undo = <<>> THEN s
  ELSE LET c == create_state(s, "undo")
           s1 == [c.s EXCEPT !.redo = Append(c.s.redo, c.state)]
           s2 == restore_state([s1 EXCEPT !.undo = Pop(s1.undo)], Top(s1.undo))
       IN instrument_write(s2, "cancel (undo)")

undo_cancel(s) ==
  IF s.undo = <<>> THEN s
  ELSE LET s2 == restore_state([s EXCEPT !.undo = Pop(s.undo)], Top(s.undo))
       IN instrument_write(s2, "cancel (undo)")

\* redo_pop that clears what is left of the redo stack.
redo_pop_clearing(s) ==
  IF s.redo = <<>> THEN s
  ELSE LET c == create_state(s, "redo")
           s1 == [c.s EXCEPT !.undo = Append(c.s.undo, c.state)]
           s2 == restore_state([s1 EXCEPT !.redo = <<>>], Top(s1.redo))
       IN instrument_write(s2, "redo")

\* redo_pop that does not keep the state it leaves.
redo_pop_nopush(s) ==
  IF s.redo = <<>> THEN s
  ELSE LET s2 == restore_state([s EXCEPT !.redo = Pop(s.redo)], Top(s.redo))
       IN instrument_write(s2, "redo")

redo_pop(s) ==
  IF s.redo = <<>> THEN s
  ELSE LET c == create_state(s, "redo")
           s1 == [c.s EXCEPT !.undo = Append(c.s.undo, c.state)]
           s2 == restore_state([s1 EXCEPT !.redo = Pop(s1.redo)], Top(s1.redo))
       IN instrument_write(s2, "redo")

\* A caller's edit of the live mesh in place (a tool's work between pushes).
mutate(s, v) == [s EXCEPT !.heap[s.rftarget] = v]

\* __init__: empty stacks, mode 'main', not navigating, no countdown, no
\* exit request, the target and its render cache, the starting tool (no
\* tool is set yet, so set_tool goes through), then 'initial' is pushed and
\* cancelled.
init(v, starting_tool) ==
  LET s0 == [undo |-> <<>>, redo |-> <<>>, rftarget |-> 1, rftarget_draw |-> 1,
             heap |-> [i \in {1} |-> v], tool |-> starting_tool,
             mode |-> "main", nav |-> FALSE, exit |-> FALSE, time_to_save |-> {},
             calls |-> <<>>]
      s1 == set_tool(s0, starting_tool, TRUE)
  IN undo_cancel(undo_push(s1, "initial", FALSE))

\* ------------------------------------------------------- the modal loop

\* One timer tick of the auto-save countdown, and the countdown it starts
\* from, in the unit of actions.time_delta.
TimeDelta == 1

AutoSaveTime == 1

\* The countdown is left overdue by a save that raises; events that would
\* take it further than this below zero are not taken.
MaxOverdue == 0

\* An event as _process_event resolves it: the actions in use or pressed
\* and the other inputs modal reads (flags), what the active tool does if
\* it gets its modal tick (tick), and the mesh value an edit leaves (val).
\*   "TIMER"         event.type == 'TIMER' (actions.timer)
\*   "no auto save"  use_auto_save_temporary_files is off
\*   "save fails"    removing or writing the backup file raises
\*   "hover"         window_manager.modal reports 'hover'
\*   "navigate"      actions.navigating()
\*   "trackpad"      actions.trackpad
\*   "invalid mouse" actions.valid_mouse() is false
\*   "widget pass"   rfwidget.modal() is false
Flags ==
  {"window actions", "autosave", "tool help", "TIMER", "no auto save", "save fails",
   "hover", "navigate", "trackpad", "undo", "redo", "F2", "F3", "T1 key", "T2 key",
   "select all", "invalid mouse", "widget pass", "done", "edit mode"}

Ticks == {"idle", "edit", "drag", "cancel", "assert", "exception"}

\* RFTool.action_tool, the registered (action, tool) bindings in order.
action_tool == <<[action |-> "T1 key", tool |-> "T1"], [action |-> "T2 key", tool |-> "T2"]>>

pressed(e, a) == a \in e.flags

using(e, a) == a \in e.flags

\* tool.modal(): the active tool's tick.  A tool pushes an undo step and
\* edits the mesh, repeats a repeatable step, cancels its step, or raises.
tool_modal(s, e) ==
  LET s1 == Called(s, <<"tool.modal">>)
  IN CASE e.tick = "idle" -> [s |-> s1, raised |-> "none"]
       [] e.tick = "edit" -> [s |-> mutate(undo_push(s1, "a", FALSE), e.val), raised |-> "none"]
       [] e.tick = "drag" -> [s |-> mutate(undo_push(s1, "a", TRUE), e.val), raised |-> "none"]
       [] e.tick = "cancel" -> [s |-> undo_cancel(s1), raised |-> "none"]
       [] e.tick = "assert" -> [s |-> s1, raised |-> "assert"]
       [] e.tick = "exception" -> [s |-> s1, raised |-> "exception"]

\* select_toggle edits the selection of the live mesh.
select_toggle(s, v) == mutate(Called(s, <<"select_toggle">>), v)

\* A 'select all' that changes the selection before it pushes the undo step.
select_all_late(s, v) ==
  undo_push(select_toggle(Called(s, <<"undo_push">>), v), "select all", FALSE)

\* 'select all' in main mode: self.undo_push('select all'), then
\* self.select_toggle().
select_all(s, v) ==
  select_toggle(undo_push(Called(s, <<"undo_push">>), "select all", FALSE), v)

Bound(e) == {b \in 1..Len(action_tool) : pressed(e, action_tool[b].action)}

\* The last pressed binding of the table instead of the first.
LastBound(e) == CHOOSE b \in Bound(e) : \A c \in Bound(e) : b >= c

FirstBound(e) == CHOOSE b \in Bound(e) : \A c \in Bound(e) : b <= c

\* modal_main: the session it leaves, the mode it returns (always None),
\* and the exception it raises, if any.  The calls it makes on the
\* session's own undo_pop, redo_pop, set_tool and undo_push are logged
\* beside those on the collaborators.
modal_main(s, e) ==
  IF pressed(e, "undo") THEN [s |-> undo_pop(Called(s, <<"undo_pop">>)), nmode |-> "", raised |-> "none"]
  ELSE IF pressed(e, "redo") THEN [s |-> redo_pop(Called(s, <<"redo_pop">>)), nmode |-> "", raised |-> "none"]
  ELSE IF pressed(e, "F2")
    THEN [s |-> Called(s, <<"profiler.printout">>), nmode |-> "", raised |-> "none"]
  ELSE IF pressed(e, "F3")
    THEN [s |-> Called(s, <<"profiler.clear">>), nmode |-> "", raised |-> "none"]
  ELSE IF Bound(e) # {}
    THEN [s |-> set_tool(Called(s, <<"set_tool">>), action_tool[FirstBound(e)].tool, FALSE),
          nmode |-> "", raised |-> "none"]
  ELSE IF pressed(e, "select all")
    THEN [s |-> select_all(s, e.val),
          nmode |-> "", raised |-> "none"]
  ELSE IF pressed(e, "invalid mouse")
    THEN [s |-> Called(s, <<"rfwidget.clear", "set_cursor", "rfwidget.modal">>),
          nmode |-> "", raised |-> "none"]
  ELSE IF pressed(e, "widget pass")
    THEN [s |-> Called(s, <<"rfwidget.update", "set_cursor", "rfwidget.modal">>),
          nmode |-> "", raised |-> "none"]
  ELSE tool_modal(Called(s, <<"rfwidget.update", "set_cursor", "rfwidget.modal">>), e)
         @@ [nmode |-> ""]

\* The mode table self.FSM.
FSM == {"main"}

\* A handler call whose exceptions are not caught.
handler_uncaught(s, e) ==
  LET h == modal_main(Called(s, <<"modal_main">>), e)
  IN IF h.raised = "none" THEN h.s ELSE Called(h.s, <<"raise">>)

\* A try that assigns whatever the handler returned to the mode.
try_except_assigning(h) ==
  CASE h.raised = "none" -> [h.s EXCEPT !.mode = h.nmode]
    [] h.raised = "assert" -> Called(h.s, <<"alert_user assert">>)
    [] h.raised = "exception" -> Called(h.s, <<"alert_user exception">>)

\* The try of modal around a handler call that left h: the mode is assigned
\* when the handler returns one, an exception is reported to the user.
try_except(h) ==
  CASE h.raised = "none" -> IF h.nmode # "" THEN [h.s EXCEPT !.mode = h.nmode] ELSE h.s
    [] h.raised = "assert" -> Called(h.s, <<"alert_user assert">>)
    [] h.raised = "exception" -> Called(h.s, <<"alert_user exception">>)

\* Step 9: the handler of the current mode under the try of modal.
handler(s, e) ==
  IF s.mode \notin FSM THEN Called(s, <<"alert_user exception">>)
  ELSE try_except(modal_main(Called(s, <<"modal_main">>), e))

\* The countdown after a timer tick, before the save.
Countdown(s) ==
  IF s.time_to_save = {} THEN AutoSaveTime
  ELSE (CHOOSE t \in s.time_to_save : TRUE) - TimeDelta

Ticking(e) == ~pressed(e, "no auto save") /\ pressed(e, "TIMER")

\* The auto-save step: the session it leaves and whether the save raised.
auto_save(s, e) ==
  IF ~Ticking(e) THEN [s |-> s, raised |-> FALSE]
  ELSE IF Countdown(s) > 0
    THEN [s |-> [s EXCEPT !.time_to_save = {Countdown(s)}], raised |-> FALSE]
  ELSE IF pressed(e, "save fails")
    THEN [s |-> Called([s EXCEPT !.time_to_save = {Countdown(s)}], <<"save_as_mainfile">>),
          raised |-> TRUE]
  ELSE [s |-> Called([s EXCEPT !.time_to_save = {AutoSaveTime}], <<"save_as_mainfile">>),
        raised |-> FALSE]

\* A return that looks at 'edit mode' before 'done' and the exit flag.
Finish_editfirst(s, e) ==
  IF pressed(e, "edit mode") THEN "confirm, edit mode"
  ELSE IF pressed(e, "done") \/ s.exit THEN "confirm"
  ELSE "stay"

\* What modal returns after the handler.
Finish(s, e) ==
  IF pressed(e, "done") \/ s.exit THEN "confirm"
  ELSE IF pressed(e, "edit mode") THEN "confirm, edit mode"
  ELSE "stay"

\* A navigation test that looks at the navigation action alone.
Navigating_keyonly(s, e) == pressed(e, "navigate")

\* The navigation test of modal.
Navigating(s, e) == pressed(e, "navigate") \/ (pressed(e, "TIMER") /\ s.nav)

\* The end of modal, after the handler left s.
modal_done(s, e) == [s |-> s, ret |-> Finish(s, e)]

\* modal after the navigation test failed: the flag of a finished
\* navigation is reset, then the handler runs.
modal_handler(s, e) ==
  modal_done(handler(IF s.nav THEN Called([s EXCEPT !.nav = FALSE], <<"rfwidget.update">>)
                     ELSE s, e), e)

\* modal after window_manager.modal: a hover over the user interface,
\* then the navigation test.
modal_window(s, e) ==
  IF pressed(e, "hover")
    THEN [s |-> Called(s, <<"rfwidget.clear">>), ret |-> IF s.exit THEN "confirm" ELSE "stay"]
  ELSE IF Navigating(s, e)
    THEN [s |-> Called([s EXCEPT !.nav = TRUE],
                       <<"actions.unuse">>
                         \o (IF pressed(e, "trackpad") THEN <<>> ELSE <<"set_cursor">>)
                         \o <<"rfwidget.clear">>),
          ret |-> "pass"]
  ELSE modal_handler(s, e)

\* modal after the auto-save step left a: an exception of the save leaves
\* modal.
modal_saved(a, e) ==
  IF a.raised THEN [s |-> a.s, ret |-> "raise"]
  ELSE modal_window(Called(a.s, <<"window_manager.modal">>), e)

\* modal without the test for the 'autosave' action.
modal_event_noautosave(s, e) ==
  IF using(e, "window actions") THEN [s |-> s, ret |-> "pass"]
  ELSE IF pressed(e, "tool help") THEN [s |-> Called(s, <<"toggle_tool_help">>), ret |-> "stay"]
  ELSE modal_saved(auto_save(s, e), e)

\* modal after _process_event and the raycast of the mouse.
modal_event(s, e) ==
  IF using(e, "window actions") THEN [s |-> s, ret |-> "pass"]
  ELSE IF using(e, "autosave") THEN [s |-> s, ret |-> "pass"]
  ELSE IF pressed(e, "tool help") THEN [s |-> Called(s, <<"toggle_tool_help">>), ret |-> "stay"]
  ELSE modal_saved(auto_save(s, e), e)

\* modal(context, event): the session it leaves and what it returns
\* ("pass", "stay" for the empty set, "confirm", "confirm, edit mode"), or
\* "raise" when an exception leaves modal.
modal(s, e) == modal_event(Called(s, <<"_process_event", "raycast_sources_mouse">>), e)

\* ---------------------------------------------------- source queries

\* The most sources a query is followed over.
MaxSources == 3

\* The distances a source reports for a hit.
Dists == {1, 2}

\* A ray against self.rfsources: for each source in order, 0 where the ray
\* misses it, else the distance of its hit.
SourceLists == UNION {[1..n -> {0} \cup Dists] : n \in 0..MaxSources}

\* (None, None, None, None)
NoHit == [hit |-> FALSE, src |-> 0, d |-> 0]

\* rfsource.raycast(ray) of the i-th source: its hit (the point, normal
\* and face are the source's own, so the hit names the source) or no hit.
rfsource_raycast(srcs, i) ==
  IF srcs[i] = 0 THEN NoHit ELSE [hit |-> TRUE, src |-> i, d |-> srcs[i]]

\* A loop that lets a hit at the same distance replace the kept one.
RECURSIVE BestHitLast(_, _, _)
BestHitLast(srcs, i, b) ==
  IF i > Len(srcs) THEN b
  ELSE BestHitLast(srcs, i + 1,
         IF ~b.hit \/ (rfsource_raycast(srcs, i).hit /\ rfsource_raycast(srcs, i).d <= b.d)
         THEN rfsource_raycast(srcs, i) ELSE b)

\* The loop over self.rfsources from the i-th source on, b the kept hit:
\* if bp is None or (hp is not None and hd < bd): keep the new one.
RECURSIVE BestHit(_, _, _)
BestHit(srcs, i, b) ==
  IF i > Len(srcs) THEN b
  ELSE BestHit(srcs, i + 1,
         IF ~b.hit \/ (rfsource_raycast(srcs, i).hit /\ rfsource_raycast(srcs, i).d < b.d)
         THEN rfsource_raycast(srcs, i) ELSE b)

raycast_sources_Ray(srcs) == BestHit(srcs, 1, NoHit)

\* What the plane-intersection routine of the i-th source returns: the
\* crossings it finds on its own mesh, by the walk or the non-walk variant.
rfsource_crawl(i, walk) ==
  <<[src |-> i, routine |-> IF walk THEN "plane_intersection_walk_crawl"
                            ELSE "plane_intersection_crawl"]>>

\* The crawl of the kept hit b: the result, and the routines called.
crawl_of(b, walk) ==
  IF ~b.hit THEN [result |-> <<>>, calls |-> <<>>]
  ELSE [result |-> rfsource_crawl(b.src, walk), calls |-> rfsource_crawl(b.src, walk)]

\* A crawl that takes the non-walk routine whatever walk says.
plane_intersection_crawl_nowalk(srcs, walk) == crawl_of(BestHit(srcs, 1, NoHit), FALSE)

plane_intersection_crawl(srcs, walk) == crawl_of(BestHit(srcs, 1, NoHit), walk)
\* ------------------------------------------------------ bookkeeping

\* `call` is the last call made on the session.  `run` follows a run of
\* undo_push calls and the undo_pop calls after it: pre[k] is the live mesh
\* value just before the k-th push of the run and whether that push took a
\* snapshot, pops the number of undo_pop calls since.  `rt` holds the
\* session as it was before an undo_pop that a redo_pop follows at once
\* (its mesh value, tool, and both stacks by length and by value).
\* `ev` is the event modal is returning from and `ret` what it returns.
MaxRun == undo_depth + 1

NoRun == [pre |-> <<>>, pops |-> 0]

NoRt == [phase |-> "none", val |-> 0, tool |-> "", lu |-> 0, lr |-> 0, uv |-> <<>>, rv |-> <<>>]

\* The entries of stack q of session s by value: label, tool and the
\* value of the mesh copy.
Entries(s, q) ==
  [i \in 1..Len(q) |-> [action |-> q[i].action, tool |-> q[i].tool,
                        val |-> s.heap[q[i].rftarget]]]

Collapses(s, action, repeatable) ==
  repeatable /\ s.undo # <<>> /\ Top(s.undo).action = action

\* A call on the session: its name and arguments, whether it is a push
\* that repeats the label on top of undo, and the lengths of the stacks
\* when it is made.
Call(s, op, action, repeatable) ==
  [op |-> op, action |-> action, repeatable |-> repeatable,
   collapsed |-> (op = "undo_push" /\ Collapses(s, action, repeatable)),
   lu |-> Len(s.undo), lr |-> Len(s.redo)]

NoArg(op) == Call(Cur, op, "", FALSE)

NoEvent == [flags |-> {}, tick |-> "", val |-> 0]

\* `query` is the last query made on the sources and what it returned.
NoQuery == [op |-> "", sources |-> <<>>, walk |-> FALSE, hit |-> NoHit, crawl |-> <<>>, calls |-> <<>>]

LastN(q, n) == IF Len(q) > n THEN SubSeq(q, Len(q) - n + 1, Len(q)) ELSE q

RunPush(s, action, repeatable) ==
  LET e == [val |-> Live(s), taken |-> ~Collapses(s, action, repeatable)]
  IN IF run.pops > 0 THEN [pre |-> <<e>>, pops |-> 0]
     ELSE [pre |-> LastN(Append(run.pre, e), MaxRun), pops |-> 0]

RunPop ==
  IF run.pops < Len(run.pre) THEN [run EXCEPT !.pops = run.pops + 1] ELSE NoRun

RtUndo(s) ==
  IF s.undo = <<>> THEN NoRt
  ELSE [phase |-> "undone", val |-> Live(s), tool |-> s.tool,
        lu |-> Len(s.undo), lr |-> Len(s.redo),
        uv |-> Entries(s, s.undo), rv |-> Entries(s, s.redo)]

RtRedo == IF rt.phase = "undone" THEN [rt EXCEPT !.phase = "redone"] ELSE NoRt

\* ------------------------------------------------------------ actions

\* The session as one call leaves it.
Becomes(s) ==
  \E c \in {Collect(s)} :
     /\ undo' = c.undo
     /\ redo' = c.redo
     /\ rftarget' = c.rftarget
     /\ rftarget_draw' = c.rftarget_draw
     /\ heap' = c.heap
     /\ tool' = c.tool
     /\ mode' = c.mode
     /\ nav' = c.nav
     /\ exit' = c.exit
     /\ time_to_save' = c.time_to_save
     /\ calls' = c.calls

\* The session at the start of a call: the log of the calls it makes is empty.
Fresh == [Cur EXCEPT !.calls = <<>>]

Init ==
  \E v \in Vals, t \in Tools :
    \E s \in {Collect(init(v, t))} :
       /\ undo = s.undo
       /\ redo = s.redo
       /\ rftarget = s.rftarget
       /\ rftarget_draw = s.rftarget_draw
       /\ heap = s.heap
       /\ tool = s.tool
       /\ mode = s.mode
       /\ nav = s.nav
       /\ exit = s.exit
       /\ time_to_save = s.time_to_save
       /\ calls = <<>>
       /\ call = [op |-> "__init__", action |-> "", repeatable |-> FALSE,
                   collapsed |-> FALSE, lu |-> 0, lr |-> 0]
       /\ run = NoRun
       /\ rt = NoRt
       /\ ev = NoEvent
       /\ ret = ""
       /\ nevents = 0
       /\ query = NoQuery

UndoPush(a, r) ==
  /\ Becomes(undo_push(Fresh, a, r))
  /\ call' = Call(Cur, "undo_push", a, r)
  /\ UNCHANGED <<ev, ret, nevents, query>>

UndoPop ==
  /\ Becomes(undo_pop(Fresh))
  /\ call' = NoArg("undo_pop")
  /\ UNCHANGED <<ev, ret, nevents, query>>

RedoPop ==
  /\ Becomes(redo_pop(Fresh))
  /\ call' = NoArg("redo_pop")
  /\ UNCHANGED <<ev, ret, nevents, query>>

UndoCancel ==
  /\ Becomes(undo_cancel(Fresh))
  /\ call' = NoArg("undo_cancel")
  /\ UNCHANGED <<ev, ret, nevents, query>>

Mutate(v) ==
  /\ Becomes(mutate(Fresh, v))
  /\ call' = NoArg("mutate")
  /\ UNCHANGED <<ev, ret, nevents, query>>

SetTool(t) ==
  /\ Becomes(set_tool(Fresh, t, FALSE))
  /\ call' = NoArg("set_tool")
  /\ UNCHANGED <<ev, ret, nevents, query>>

vars ==
  <<undo, redo, rftarget, rftarget_draw, heap, tool, calls, mode, nav, exit,
    time_to_save, ev, ret, nevents, call, run, rt, query>>

\* Any interleaving of the history operations, a caller's edits and tool
\* changes; rt follows undo_pop/redo_pop pairs.
CallUndoPush == \E a \in Labels, r \in BOOLEAN : UndoPush(a, r) /\ rt' = NoRt /\ UNCHANGED run

CallUndoPop == UndoPop /\ rt' = RtUndo(Fresh) /\ UNCHANGED run

CallRedoPop == RedoPop /\ rt' = RtRedo /\ UNCHANGED run

CallUndoCancel == UndoCancel /\ rt' = NoRt /\ UNCHANGED run

CallMutate == \E v \in Vals \ {heap[rftarget]} : Mutate(v) /\ rt' = NoRt /\ UNCHANGED run

CallSetTool == \E t \in Tools : SetTool(t) /\ rt' = NoRt /\ UNCHANGED run

Next ==
  \/ CallUndoPush
  \/ CallUndoPop
  \/ CallRedoPop
  \/ CallUndoCancel
  \/ CallMutate
  \/ CallSetTool

Spec == Init /\ [][Next]_vars

\* The same interleavings with `run` following the runs of pushes and pops.
RunUndoPush ==
  \E a \in Labels, r \in BOOLEAN : UndoPush(a, r) /\ run' = RunPush(Fresh, a, r) /\ UNCHANGED rt

RunUndoPop == UndoPop /\ run' = RunPop /\ UNCHANGED rt

RunRedoPop == RedoPop /\ run' = NoRun /\ UNCHANGED rt

RunUndoCancel == UndoCancel /\ run' = NoRun /\ UNCHANGED rt

RunMutate ==
  \E v \in Vals \ {heap[rftarget]} :
    Mutate(v) /\ run' = (IF run.pops = 0 THEN run ELSE NoRun) /\ UNCHANGED rt

NextRun ==
  \/ RunUndoPush
  \/ RunUndoPop
  \/ RunRedoPop
  \/ RunUndoCancel
  \/ RunMutate

SpecRun == Init /\ [][NextRun]_vars

\* The modal loop: the host hands modal one event at a time and takes its
\* result before the next; a click on the exit button sets the exit flag;
\* 'confirm' ends the session.
\* A session is followed for this many events.
MaxEvents == 2

\* The events: any one or two of the flags, a failing save with any one
\* flag beside the timer tick, a 'select all' or a tool tick with any one
\* flag; val ranges where the event reads it.
RECURSIVE AtMost(_, _)
AtMost(S, n) ==
  IF n = 0 THEN {{}}
  ELSE {f \cup g : f \in AtMost(S, n - 1), g \in {{}} \cup {{a} : a \in S}}

FlagSets ==
  AtMost(Flags \ {"save fails"}, 2)
    \cup {f \cup {"TIMER", "save fails"} : f \in AtMost(Flags, 1)}

NoVal == CHOOSE v \in Vals : \A w \in Vals : v <= w

Events ==
  {[flags |-> f, tick |-> "idle", val |-> NoVal] : f \in FlagSets}
  \cup {[flags |-> {"select all"} \cup f, tick |-> "idle", val |-> v] :
           f \in AtMost(Flags, 1), v \in Vals}
  \cup {[flags |-> f, tick |-> t, val |-> v] :
           f \in AtMost(Flags, 1), t \in {"edit", "drag"}, v \in Vals}
  \cup {[flags |-> f, tick |-> t, val |-> NoVal] :
           f \in AtMost(Flags, 1), t \in {"cancel", "assert", "exception"}}

Overdue(s, e) == Ticking(e) /\ pressed(e, "save fails") /\ Countdown(s) < 0 - MaxOverdue

ModalEvent ==
  \E e \in Events :
    /\ ev = NoEvent
    /\ nevents < MaxEvents
    /\ ~Overdue(Cur, e)
    /\ \E m \in {modal(Fresh, e)} : Becomes(m.s) /\ ret' = m.ret
    /\ ev' = e
    /\ nevents' = nevents + 1
    /\ UNCHANGED <<call, run, rt, query>>

Return ==
  /\ ev # NoEvent
  /\ ret \notin {"confirm", "confirm, edit mode"}
  /\ ev' = NoEvent
  /\ ret' = ""
  /\ calls' = <<>>
  /\ UNCHANGED <<undo, redo, rftarget, rftarget_draw, heap, tool, mode, nav, exit,
                 time_to_save, nevents, call, run, rt, query>>

RequestExit ==
  /\ ev = NoEvent
  /\ ~exit
  /\ exit' = TRUE
  /\ UNCHANGED <<undo, redo, rftarget, rftarget_draw, heap, tool, mode, nav,
                 time_to_save, calls, ev, ret, nevents, call, run, rt, query>>

NextModal == ModalEvent \/ Return \/ RequestExit

SpecModal == Init /\ [][NextModal]_vars

\* Main mode alone: the events that reach the handler and ask for an undo,
\* a redo, a 'select all' or a tool and nothing else, or assert nothing
\* and leave the tick to the tool; a session is followed for this many of
\* them.
MaxMainEvents == 3

MainEvents ==
  {e \in Events : \/ e.flags = {}
                  \/ /\ e.tick = "idle"
                     /\ \E f \in {"undo", "redo", "select all", "T1 key"} : e.flags = {f}}

MainEvent ==
  \E e \in MainEvents :
    /\ ev = NoEvent
    /\ nevents < MaxMainEvents
    /\ \E m \in {modal(Fresh, e)} : Becomes(m.s) /\ ret' = m.ret
    /\ ev' = e
    /\ nevents' = nevents + 1
    /\ UNCHANGED <<call, run, rt, query>>

NextMain == MainEvent \/ Return

SpecMain == Init /\ [][NextMain]_vars

\* The queries on the sources: any ray against any list of sources.
RaycastSourcesRay ==
  /\ \E srcs \in SourceLists :
       query' = [op |-> "raycast_sources_Ray", sources |-> srcs, walk |-> FALSE,
                 hit |-> raycast_sources_Ray(srcs), crawl |-> <<>>, calls |-> <<>>]
  /\ UNCHANGED <<undo, redo, rftarget, rftarget_draw, heap, tool, calls, mode, nav, exit,
                 time_to_save, ev, ret, nevents, call, run, rt>>

PlaneIntersectionCrawl ==
  /\ \E srcs \in SourceLists, walk \in BOOLEAN :
       \E c \in {plane_intersection_crawl(srcs, walk)} :
          query' = [op |-> "plane_intersection_crawl", sources |-> srcs, walk |-> walk,
                    hit |-> NoHit, crawl |-> c.result, calls |-> c.calls]
  /\ UNCHANGED <<undo, redo, rftarget, rftarget_draw, heap, tool, calls, mode, nav, exit,
                 time_to_save, ev, ret, nevents, call, run, rt>>

NextQuery == RaycastSourcesRay \/ PlaneIntersectionCrawl

SpecQuery == Init /\ [][NextQuery]_vars

\* ------------------------------------------------------------- claims

\* The entries of a stack by value: label, tool and the value of the mesh
\* copy in store h.
EntryView(q, h) ==
  [i \in 1..Len(q) |-> [action |-> q[i].action, tool |-> q[i].tool, val |-> h[q[i].rftarget]]]

AllTaken == \A i \in 1..Len(run.pre) : run.pre[i].taken

\* The value the live mesh had just before the (N-M+1)-th push of the run.
RunTarget == run.pre[Len(run.pre) - run.pops + 1].val

InLog(f, log) == \E i \in 1..Len(log) : log[i] = f

IsAlert(f) == f \in {"alert_user assert", "alert_user exception"}

\* C1: in every state reachable by interleavings of undo_push, undo_pop,
\* redo_pop and undo_cancel the undo stack holds at most undo_depth
\* snapshots.
C1_UndoBounded == Len(undo) <= undo_depth

\* A run of undo_depth+1 pushes that each took a snapshot: the last one
\* found the stack full.
C1_Witness ==
  /\ run.pops = 0
  /\ Len(run.pre) = undo_depth + 1
  /\ AllTaken
  /\ Len(undo) = undo_depth

\* C2 as stated: every undo_push call, whatever its arguments and the
\* history before it, leaves the redo stack empty.
C2_Original == call.op = "undo_push" => redo = <<>>

\* C2 amended: every undo_push call that is not collapsed (repeatable
\* false, or undo empty, or another label on top) leaves the redo stack
\* empty, and a redo_pop right after it changes nothing.
C2_PushClearsRedo ==
  (call.op = "undo_push" /\ ~call.collapsed) => (redo = <<>> /\ redo_pop(Cur) = Cur)

\* A push that took a snapshot while redo held entries.
C2_Witness == call.op = "undo_push" /\ ~call.collapsed /\ call.lr > 0 /\ redo = <<>>

\* C3 as stated: after N undo_push calls and then M <= N undo_pop calls the
\* live mesh has the value it had just before the (N-M+1)-th push.
C3_Original == run.pops >= 1 => Live(Cur) = RunTarget

\* C3 amended: the same for N pushes that each took a snapshot (none
\* collapsed) and M <= min(N, undo_depth).
C3_SnapshotFidelity ==
  (run.pops >= 1 /\ run.pops <= undo_depth /\ AllTaken) => Live(Cur) = RunTarget

\* undo_depth+1 pushes with edits between them, then undo_depth pops.
C3_Witness ==
  /\ run.pops = undo_depth
  /\ Len(run.pre) = undo_depth + 1
  /\ AllTaken
  /\ \E i \in 1..Len(run.pre) : run.pre[i].val # RunTarget

\* C4: undo_pop on a non-empty undo stack, then redo_pop at once, leaves
\* the live mesh value, the active tool and the lengths of both stacks as
\* they were before the undo_pop.
C4_UndoRedoRoundTrip ==
  rt.phase = "redone" =>
    /\ Live(Cur) = rt.val
    /\ tool = rt.tool
    /\ Len(undo) = rt.lu
    /\ Len(redo) = rt.lr

\* A round trip through a snapshot that differs from the state it left in
\* mesh value and in tool, with redo entries beside.
C4_Witness ==
  /\ rt.phase = "redone"
  /\ rt.lr > 0
  /\ Top(undo).tool # tool
  /\ heap[Top(undo).rftarget] # Live(Cur)

\* C5: undo_push(action, repeatable=true) with the same label on top of
\* undo takes no snapshot: both stacks, the store, the live mesh and the
\* tool are as before, and no call is made on a collaborator.
C5_RepeatedPushIsNoOp ==
  [][(call'.op = "undo_push" /\ call'.repeatable
        /\ undo # <<>> /\ Top(undo).action = call'.action)
       => (/\ undo' = undo
           /\ redo' = redo
           /\ heap' = heap
           /\ rftarget' = rftarget
           /\ tool' = tool
           /\ calls' = <<>>)]_vars

\* A collapsed push, made while redo held entries.
C5_Witness == call.op = "undo_push" /\ call.collapsed /\ redo # <<>>

\* C6: undo_pop and undo_cancel on an empty undo stack, and redo_pop on an
\* empty redo stack, change nothing and call no collaborator.
C6_BoundaryNoOp ==
  [][((call'.op \in {"undo_pop", "undo_cancel"} /\ undo = <<>>)
        \/ (call'.op = "redo_pop" /\ redo = <<>>))
       => (/\ UNCHANGED <<undo, redo, rftarget, rftarget_draw, heap, tool, mode>>
           /\ calls' = <<>>)]_vars

\* undo_pop called with undo empty and redo not.
C6_Witness == call.op = "undo_pop" /\ call.lu = 0 /\ redo # <<>>

\* C7: a push that takes a snapshot with undo_depth entries on the stack
\* evicts the oldest: the stack is then the old entries without the first,
\* in order, and the new snapshot on top.
C7_EvictsOldest ==
  [][(call'.op = "undo_push" /\ ~call'.collapsed /\ Len(undo) = undo_depth)
       => EntryView(undo', heap')
            = Tail(EntryView(undo, heap))
                \o <<[action |-> call'.action, tool |-> tool, val |-> heap[rftarget]]>>]_vars

\* A push that took a snapshot on a full stack whose entries differ.
C7_Witness ==
  /\ call.op = "undo_push"
  /\ ~call.collapsed
  /\ call.lu = undo_depth
  /\ EntryView(undo, heap)[1] # EntryView(undo, heap)[Len(undo)]

\* C8: the live mesh is another object than the mesh copy of every entry
\* of undo and redo, no two entries hold the same copy, and an edit of the
\* live mesh changes no copy.
C8_NoAliasing ==
  LET q == undo \o redo
  IN /\ \A i \in 1..Len(q) : q[i].rftarget # rftarget
     /\ \A i, j \in 1..Len(q) : i # j => q[i].rftarget # q[j].rftarget
     /\ \A v \in Vals : \A i \in 1..Len(q) :
          mutate(Cur, v).heap[q[i].rftarget] = heap[q[i].rftarget]

\* Both stacks hold entries after an undo_pop moved one.
C8_Witness == call.op = "undo_pop" /\ call.lu > 0 /\ undo # <<>> /\ redo # <<>>

\* C9 as stated: an event with a navigation action that steps 3, 4 and 6
\* do not short-circuit makes modal return pass-through without calling
\* the mode handler, the tool and the history stacks left as they were.
C9_Original ==
  [][(/\ ev = NoEvent
      /\ ev' # NoEvent
      /\ ev'.flags \cap {"window actions", "autosave", "tool help", "hover"} = {}
      /\ "navigate" \in ev'.flags)
       => (/\ ret' = "pass"
           /\ ~InLog("modal_main", calls')
           /\ tool' = tool
           /\ undo' = undo
           /\ redo' = redo)]_vars

\* C10: when the tool's tick raises inside the mode handler, modal reports
\* one alert of the matching level, leaves current_mode as it was and
\* returns what steps 10-12 decide.
C10_HandlerExceptionCaught ==
  [][(/\ ev = NoEvent
      /\ ev' # NoEvent
      /\ InLog("tool.modal", calls')
      /\ ev'.tick \in {"assert", "exception"})
       => (/\ ev'.tick = "assert" => SelectSeq(calls', IsAlert) = <<"alert_user assert">>
           /\ ev'.tick = "exception" => SelectSeq(calls', IsAlert) = <<"alert_user exception">>
           /\ mode' = mode
           /\ ret' = IF "done" \in ev'.flags \/ exit' THEN "confirm"
                     ELSE IF "edit mode" \in ev'.flags THEN "confirm, edit mode"
                     ELSE "stay")]_vars

\* The tool raised in an event that also asks to leave to edit mode.
C10_Witness ==
  /\ ev.tick = "exception"
  /\ InLog("tool.modal", calls)
  /\ "edit mode" \in ev.flags
  /\ ret = "confirm, edit mode"

\* C11 as stated: when the countdown expires on a timer tick and the save
\* of the backup file fails, the failure does not leave modal: the event
\* goes on with the window manager and modal returns a normal result.
C11_Original ==
  [][(/\ ev = NoEvent
      /\ ev' # NoEvent
      /\ ev'.flags \cap {"window actions", "autosave", "tool help"} = {}
      /\ Ticking(ev')
      /\ "save fails" \in ev'.flags
      /\ InLog("save_as_mainfile", calls'))
       => (/\ ret' \in {"pass", "stay", "confirm", "confirm, edit mode"}
           /\ InLog("window_manager.modal", calls'))]_vars

\* The sources of the last query that the ray hits.
Hitting == {i \in 1..Len(query.sources) : query.sources[i] # 0}

\* The source that owns the nearest hit of the last query: none is nearer,
\* and none as near comes before it.
Owner ==
  CHOOSE i \in Hitting :
    \A j \in Hitting : /\ query.sources[i] <= query.sources[j]
                       /\ (query.sources[j] = query.sources[i] => i <= j)

\* C12: the raycast over the sources returns no hit exactly when no source
\* reports a hit (the empty list included); otherwise it returns the hit
\* of a source at the least reported distance, the earliest in source
\* order among those at that distance.
C12_NearestHit ==
  query.op = "raycast_sources_Ray" =>
    /\ query.hit.hit <=> Hitting # {}
    /\ Hitting = {} => query.hit = NoHit
    /\ Hitting # {} =>
         /\ query.hit.src \in Hitting
         /\ query.hit.d = query.sources[query.hit.src]
         /\ \A j \in Hitting : query.hit.d <= query.sources[j]
         /\ \A j \in Hitting : query.sources[j] = query.hit.d => query.hit.src <= j

\* A miss first, a far hit, then two sources tied at the least distance, or
\* with a miss after them: the earlier of the two is returned.
C12_Witness ==
  /\ query.op = "raycast_sources_Ray"
  /\ Len(query.sources) = MaxSources
  /\ query.sources[MaxSources - 1] = 1
  /\ query.sources[MaxSources] \in {0, 1}
  /\ query.sources[1] \in {0, 2}
  /\ query.hit.src = MaxSources - 1

\* C13: plane_intersection_crawl returns the empty sequence and calls no
\* routine when the ray hits no source (no sources included); otherwise
\* its result is the output of the routine (walk or non-walk, as asked) of
\* the source that owns the nearest hit, and that is the only crawl
\* routine called.
C13_SingleCrawl ==
  query.op = "plane_intersection_crawl" =>
    /\ Hitting = {} => (query.crawl = <<>> /\ query.calls = <<>>)
    /\ Hitting # {} =>
         /\ query.crawl = rfsource_crawl(Owner, query.walk)
         /\ query.calls = <<[src |-> Owner,
                             routine |-> IF query.walk THEN "plane_intersection_walk_crawl"
                                         ELSE "plane_intersection_crawl"]>>

\* A walk crawl where the owner is neither the first nor the only source
\* hit.
C13_Witness ==
  /\ query.op = "plane_intersection_crawl"
  /\ query.walk
  /\ Cardinality(Hitting) >= 2
  /\ Owner > 1
  /\ query.crawl # <<>>

\* C14: a successful undo_pop removes the top entry of undo and appends
\* one entry labelled 'undo', holding the mesh value and tool it left, to
\* redo; a successful redo_pop removes the top entry of redo and appends
\* one entry labelled 'redo' to undo; every other entry of both stacks
\* stays, in order, and redo_pop clears nothing of redo.
C14_MirrorTransfer ==
  [][/\ (call'.op = "undo_pop" /\ undo # <<>>) =>
          /\ EntryView(undo', heap') = Pop(EntryView(undo, heap))
          /\ EntryView(redo', heap')
               = Append(EntryView(redo, heap),
                        [action |-> "undo", tool |-> tool, val |-> heap[rftarget]])
     /\ (call'.op = "redo_pop" /\ redo # <<>>) =>
          /\ EntryView(redo', heap') = Pop(EntryView(redo, heap))
          /\ EntryView(undo', heap')
               = Append(EntryView(undo, heap),
                        [action |-> "redo", tool |-> tool, val |-> heap[rftarget]])]_vars

\* A redo_pop that found two entries on redo and left one there.
C14_Witness ==
  /\ call.op = "redo_pop"
  /\ call.lr >= 2
  /\ Len(redo) = call.lr - 1
  /\ Top(undo).action = "redo"

\* C15: undo_cancel on a non-empty undo stack removes the top entry of
\* undo and restores its mesh and tool; redo and the rest of undo stay as
\* they were, and the state it leaves is kept nowhere: the mesh object
\* that was live is referred to by no entry and is gone from the store.
C15_CancelDiscards ==
  [][(call'.op = "undo_cancel" /\ undo # <<>>) =>
       /\ EntryView(undo', heap') = Pop(EntryView(undo, heap))
       /\ EntryView(redo', heap') = EntryView(redo, heap)
       /\ heap'[rftarget'] = heap[Top(undo).rftarget]
       /\ tool' = Top(undo).tool
       /\ Cardinality(DOMAIN heap') = Cardinality(DOMAIN heap) - 1]_vars

\* An undo_cancel made with entries on both stacks.
C15_Witness ==
  /\ call.op = "undo_cancel"
  /\ call.lu >= 1
  /\ call.lr >= 1
  /\ Len(undo) = call.lu - 1
  /\ Len(redo) = call.lr

IsRestoreCall(f) ==
  f \in {"rftarget.dirty", "rftarget_draw.replace_rfmesh",
         "tool.start", "tool.update_tool_options", "tool.update"}

\* C16: every successful undo_pop, redo_pop and undo_cancel makes the mesh
\* of the popped entry the live mesh, marks it dirty, hands it to the
\* render cache, makes the entry's tool the active tool and calls start,
\* update_tool_options and update on it once each, in that order, also
\* when that tool is the active one already.
C16_RestoreEffects ==
  [][((call'.op \in {"undo_pop", "undo_cancel"} /\ undo # <<>>)
        \/ (call'.op = "redo_pop" /\ redo # <<>>))
       => LET snap == IF call'.op = "redo_pop" THEN Top(redo) ELSE Top(undo)
          IN /\ heap'[rftarget'] = heap[snap.rftarget]
             /\ rftarget_draw' = rftarget'
             /\ tool' = snap.tool
             /\ SelectSeq(calls', IsRestoreCall)
                  = <<"rftarget.dirty", "rftarget_draw.replace_rfmesh",
                      "tool.start", "tool.update_tool_options", "tool.update">>]_vars

\* An undo_pop whose entry held the tool that was active already.
C16_Witness ==
  /\ call.op = "undo_pop"
  /\ call.lu > 0
  /\ Top(redo).tool = tool
  /\ InLog("tool.start", calls)

\* C17: an event in which 'window actions' or 'autosave' is in use makes
\* modal return pass-through and leaves the mode, the tool, the navigating
\* flag, both stacks, the live mesh and the countdown as they were,
\* whatever else the event asserts.
C17_PassThroughFrame ==
  [][(/\ ev = NoEvent
      /\ ev' # NoEvent
      /\ ev'.flags \cap {"window actions", "autosave"} # {})
       => (/\ ret' = "pass"
           /\ UNCHANGED <<mode, tool, nav, undo, redo, rftarget, heap, time_to_save>>)]_vars

\* 'autosave' in use together with 'undo', with a step to undo.
C17_Witness ==
  /\ "autosave" \in ev.flags
  /\ "undo" \in ev.flags
  /\ undo # <<>>
  /\ ret = "pass"

IsDispatch(f) == f \in {"undo_pop", "redo_pop", "set_tool", "undo_push"}

\* C18: one call of the main-mode handler makes at most one of undo_pop,
\* redo_pop, a tool switch and a 'select all' push: undo_pop if 'undo' is
\* pressed, else redo_pop if 'redo' is, else (no profiler key pressed) the
\* tool of the first binding pressed, else the 'select all' push; the tool
\* gets no tick when one of them is made, and gets one only when none is,
\* the pointer widget handled the tick and the pointer is valid.
C18_MainDispatch ==
  [][(ev = NoEvent /\ ev' # NoEvent /\ InLog("modal_main", calls'))
       => LET f == ev'.flags
              fired == SelectSeq(calls', IsDispatch)
              ticked == InLog("tool.modal", calls')
              keys == f \cap {"undo", "redo", "F2", "F3"}
          IN /\ Len(fired) <= 1
             /\ "undo" \in f => fired = <<"undo_pop">>
             /\ ("redo" \in f /\ "undo" \notin f) => fired = <<"redo_pop">>
             /\ fired = <<"set_tool">> =>
                  /\ f \cap {"undo", "redo"} = {}
                  /\ \E b \in Bound(ev') : /\ \A c \in Bound(ev') : b <= c
                                           /\ tool' = action_tool[b].tool
             /\ fired = <<"undo_push">> =>
                  (f \cap {"undo", "redo"} = {} /\ Bound(ev') = {} /\ "select all" \in f)
             /\ (keys = {} /\ Bound(ev') # {}) => fired = <<"set_tool">>
             /\ (keys = {} /\ Bound(ev') = {} /\ "select all" \in f) => fired = <<"undo_push">>
             /\ fired # <<>> => ~ticked
             /\ ticked => (fired = <<>> /\ f \cap {"widget pass", "invalid mouse"} = {})
             /\ (fired = <<>> /\ f \cap {"F2", "F3", "widget pass", "invalid mouse"} = {})
                  => ticked]_vars

\* Both tool keys pressed while the second tool is active: the first
\* binding's tool is started.
C18_Witness ==
  /\ ev.flags = {"T1 key", "T2 key"}
  /\ InLog("set_tool", calls)
  /\ InLog("tool.start", calls)
  /\ tool = "T1"

\* C19: a 'select all' handled in main mode pushes one snapshot labelled
\* 'select all' holding the mesh as it was before the selection changed:
\* redo is empty afterwards and one undo_pop made next gives the live mesh
\* the value it had before the 'select all'.
C19_SelectAllUndoable ==
  [][(ev = NoEvent /\ ev' # NoEvent /\ InLog("select_toggle", calls'))
       => (/\ redo' = <<>>
           /\ Len(undo') = (IF Len(undo) < undo_depth THEN Len(undo) + 1 ELSE undo_depth)
           /\ Top(undo').action = "select all"
           /\ heap'[Top(undo').rftarget] = heap[rftarget]
           /\ Live(undo_pop(Cur))' = heap[rftarget])]_vars

\* The last event of a session was a 'select all' that changed the mesh:
\* its snapshot is on top of undo and holds the value before the change.
C19_Witness ==
  /\ "select all" \in ev.flags
  /\ InLog("select_toggle", calls)
  /\ nevents = MaxMainEvents
  /\ Len(undo) >= 1
  /\ redo = <<>>
  /\ heap[Top(undo).rftarget] # Live(Cur)

\* C20: an event that reaches the end of modal returns 'confirm' if 'done'
\* is pressed or the exit flag is set, 'edit mode' pressed or not; else
\* 'confirm' with 'edit mode' if that is pressed; else the empty set.  An
\* event returned as pass-through or for the tool help never returns
\* 'confirm', the exit flag set or not.
C20_Completion ==
  [][(ev = NoEvent /\ ev' # NoEvent)
       => (/\ InLog("modal_main", calls') =>
                ret' = (IF "done" \in ev'.flags \/ exit' THEN "confirm"
                        ELSE IF "edit mode" \in ev'.flags THEN "confirm, edit mode"
                        ELSE "stay")
           /\ (\/ ev'.flags \cap {"window actions", "autosave", "tool help"} # {}
               \/ InLog("actions.unuse", calls'))
                => ret' \in {"pass", "stay"})]_vars

\* 'done' and 'edit mode' pressed in one event that reached the handler.
C20_Witness ==
  /\ ev.flags = {"done", "edit mode"}
  /\ InLog("modal_main", calls)
  /\ ret = "confirm"

\* f is logged before g.
Before(f, g, log) == \E i, j \in 1..Len(log) : i < j /\ log[i] = f /\ log[j] = g

\* C21: the navigating flag becomes true only in an event returned as
\* navigation pass-through; it becomes false only in an event that gets
\* past the window manager with neither the navigation action nor a timer
\* tick, and in the first such event: that event refreshes the pointer
\* widget and then calls the mode handler.  Events returned at the
\* pass-through actions, the tool help or a hover leave the flag as it
\* was, and a timer event that gets past the window manager while the flag
\* is true is returned as pass-through without the handler, no navigation
\* action needed.
C21_NavigatingFlag ==
  [][(ev = NoEvent /\ ev' # NoEvent)
       => LET f == ev'.flags
              reached == InLog("window_manager.modal", calls') /\ "hover" \notin f
          IN /\ (~nav /\ nav') => (InLog("actions.unuse", calls') /\ ret' = "pass")
             /\ (nav /\ ~nav') =>
                  /\ reached
                  /\ f \cap {"navigate", "TIMER"} = {}
                  /\ Before("rfwidget.update", "modal_main", calls')
             /\ (nav /\ reached /\ f \cap {"navigate", "TIMER"} = {}) =>
                  (~nav' /\ InLog("modal_main", calls'))
             /\ (f \cap {"window actions", "autosave", "tool help", "hover"} # {}) => nav' = nav
             /\ (nav /\ reached /\ "TIMER" \in f) =>
                  (ret' = "pass" /\ nav' /\ ~InLog("modal_main", calls'))]_vars

\* The event after a navigation: the flag is down again, the pointer
\* widget was refreshed before the handler ran.
C21_Witness ==
  /\ ev # NoEvent
  /\ ~nav
  /\ Before("rfwidget.update", "modal_main", calls)

\* C22: in every state reachable by interleavings of undo_push, undo_pop,
\* redo_pop and undo_cancel the two stacks together hold at most
\* undo_depth snapshots; so redo never holds more than undo_depth, and
\* redo_pop, which appends to undo without evicting, never takes undo
\* beyond undo_depth.
C22_StacksBounded ==
  /\ Len(undo) + Len(redo) <= undo_depth
  /\ Len(redo) <= undo_depth
  /\ Len(redo_pop(Cur).undo) <= undo_depth

\* A redo_pop that filled the undo stack.
C22_Witness ==
  /\ call.op = "redo_pop"
  /\ call.lr > 0
  /\ Len(undo) = undo_depth

\* C23: current_mode is 'main' in every reachable state: after
\* construction, and after every event, whether it called the handler,
\* the handler raised, a history operation ran or the event was returned
\* early; 'main' is the only mode of the table.
C23_ModeIsMain == mode = "main" /\ FSM = {"main"}

\* The second event of a session ran an undo_pop in the handler, or the
\* tool raised in it.
C23_Witness ==
  /\ nevents = MaxEvents
  /\ InLog("modal_main", calls)
  /\ \/ InLog("undo_pop", calls) /\ redo # <<>>
     \/ InLog("alert_user assert", calls)
  /\ mode = "main"

\* The round trip left the stacks as C24 says: undo holds the same mesh
\* values and tools as before the pair, entry by entry, with the labels
\* below the top as they were and 'redo' on top; redo is as before.
Relabelled ==
  LET uv == EntryView(undo, heap)
      n == Len(uv)
  IN /\ n = Len(rt.uv)
     /\ \A i \in 1..n : uv[i].tool = rt.uv[i].tool /\ uv[i].val = rt.uv[i].val
     /\ \A i \in 1..(n - 1) : uv[i].action = rt.uv[i].action
     /\ uv[n].action = "redo"
     /\ EntryView(redo, heap) = rt.rv

\* The label that was on top of undo before the round trip.
OldLabel == rt.uv[Len(rt.uv)].action

\* undo_push(OldLabel, repeatable=true) made now is not collapsed: it
\* leaves a new snapshot of the live mesh, labelled OldLabel, on top.
PushAdds ==
  LET s == undo_push(Cur, OldLabel, TRUE)
  IN /\ s.undo # undo
     /\ Top(s.undo).action = OldLabel
     /\ s.heap[Top(s.undo).rftarget] = Live(Cur)
     /\ s.redo = <<>>

\* C24 as stated: after undo_pop on a non-empty undo stack and redo_pop at
\* once, the stacks are as before but for the label 'redo' on top of undo
\* in place of the original one, and a repeatable push with the original
\* label is not collapsed.
C24_Original ==
  rt.phase = "redone" => (Relabelled /\ Top(undo).action # OldLabel /\ PushAdds)

\* C24 amended: the same, where the label on top before the pair was not
\* 'redo' itself (as it is after an earlier round trip): then the label
\* stays 'redo' and a repeatable push labelled 'redo' is collapsed.
C24_RoundTripRelabels ==
  rt.phase = "redone" =>
    /\ Relabelled
    /\ OldLabel # "redo" => (Top(undo).action # OldLabel /\ PushAdds)
    /\ OldLabel = "redo" => undo_push(Cur, OldLabel, TRUE) = Cur

\* A round trip on a full undo stack with a caller's label on top.
C24_Witness ==
  /\ rt.phase = "redone"
  /\ Len(undo) = undo_depth
  /\ OldLabel \in Labels
  /\ Top(undo).action = "redo"
  /\ rt.uv[1].val # rt.uv[Len(rt.uv)].val

====
